---- MODULE Spec2Model ----
(***************************************************************************)
(* YfinanceUSFetcher (src/data_provider/yfinance_us_fetcher.py).           *)
(*                                                                         *)
(* Strings are sequences of one-character strings, so that strip(),        *)
(* upper(), startswith() and isalpha() are computed character by           *)
(* character.  Prices are integers in thousandths; amounts and percentages *)
(* are integers in hundredths.                                             *)
(***************************************************************************)
EXTENDS Integers, Sequences, FiniteSets, TLC

VARIABLES
    call,        \* the most recent call: operation, arguments, provider responses
    ret,         \* what that call gave back to its caller (value or exception)
    warnings,    \* number of logger.warning records written by that call
    history,     \* observer: <<call, ret, warnings>> of the calls completed so far
    statistics   \* the retry wrapper's per-function statistics

vars == <<call, ret, warnings, history, statistics>>

NoCall == [op |-> "none"]
NoRet == [kind |-> "none"]

(***************************************************************************)
(* Characters and str methods                                              *)
(***************************************************************************)
LowerLetters == {"a", "g", "l", "p"}
UpperLetters == {"A", "G", "L", "P"}
Whitespace == {" "}
Caret == "^"

\* str.upper() on one character
UpperChar(c) ==
    CASE c = "a" -> "A"
      [] c = "g" -> "G"
      [] c = "l" -> "L"
      [] c = "p" -> "P"
      [] OTHER -> c

\* str.upper()
Upper(s) == [i \in 1..Len(s) |-> UpperChar(s[i])]

RECURSIVE LStrip(_)
LStrip(s) ==
    IF s = <<>> THEN s
    ELSE IF Head(s) \in Whitespace THEN LStrip(Tail(s)) ELSE s

RECURSIVE RStrip(_)
RStrip(s) ==
    IF s = <<>> THEN s
    ELSE IF s[Len(s)] \in Whitespace THEN RStrip(SubSeq(s, 1, Len(s) - 1)) ELSE s

\* str.strip()
Strip(s) == RStrip(LStrip(s))

\* str.isalpha(): non-empty and every character a letter
IsAlpha(s) == Len(s) >= 1 /\ \A i \in 1..Len(s) : s[i] \in LowerLetters \cup UpperLetters

\* str.startswith('^')
StartsWithCaret(s) == Len(s) >= 1 /\ s[1] = Caret

(***************************************************************************)
(* _validate_stock_code                                                    *)
(***************************************************************************)
MinCodeLen == 1
MaxCodeLen == 5

\* code = stock_code.strip().upper()
LStripOnlyNormalize(stock_code) == Upper(LStrip(stock_code))
NormalizeCode(stock_code) == Upper(Strip(stock_code))

\* the condition of the if: no warning is logged when it holds
AcceptsLongCodes(code) ==
    StartsWithCaret(code) \/ (Len(code) >= MinCodeLen /\ IsAlpha(code))
AcceptedFormat(code) ==
    StartsWithCaret(code)
        \/ (Len(code) >= MinCodeLen /\ Len(code) <= MaxCodeLen /\ IsAlpha(code))

\* an argument that is not a str (None): .strip() raises AttributeError
NoneObject == <<"None">>

\* _validate_stock_code: the returned code and the warnings it logs
ValidateStockCode(stock_code) ==
    IF stock_code = NoneObject
    THEN [raised |-> TRUE, code |-> <<>>, warnings |-> 0]
    ELSE LET code == NormalizeCode(stock_code)
         IN  [raised |-> FALSE, code |-> code,
              warnings |-> IF AcceptedFormat(code) THEN 0 ELSE 1]

(***************************************************************************)
(* Specification of symbol validation: inputs are all strings of at most   *)
(* MaxLen characters over a five-character alphabet, and some named ones.  *)
(***************************************************************************)
MaxLen == 6
EnumChars == {"a", "A", "1", " ", Caret}
EnumStrings == UNION {[1..n -> EnumChars] : n \in 0..MaxLen}
PaddedAapl == <<" ", " ", "a", "a", "p", "l", " ", " ">>
NamedStrings ==
    { PaddedAapl,
      <<"A", "A", "P", "L">>,
      <<"G", "A", "P", "L", "A">>,
      <<" ", "^", "g", "a", "p", " ">>,
      <<"^", "G", "A", "P", "L", "A", "G">> }
SymbolInputs == EnumStrings \cup NamedStrings

NoStatistics == [attempt_number |-> 0]

\* a call of _validate_stock_code(stock_code) is about to run
InitSym ==
    /\ call \in {[op |-> "validate", stock_code |-> s] : s \in SymbolInputs}
    /\ ret = NoRet
    /\ warnings = 0
    /\ history = <<>>
    /\ statistics = NoStatistics

DoValidateStockCode ==
    /\ call.op = "validate"
    /\ ret = NoRet
    /\ LET v == ValidateStockCode(call.stock_code)
       IN  /\ ret' = IF v.raised THEN [kind |-> "raise", value |-> <<>>]
                     ELSE [kind |-> "return", value |-> v.code]
           /\ warnings' = v.warnings
    /\ UNCHANGED <<call, history, statistics>>

NextSym == DoValidateStockCode

SpecSym == InitSym /\ [][NextSym]_vars

(***************************************************************************)
(* _normalize_data                                                         *)
(*                                                                         *)
(* A DataFrame is its index (name and labels) and a sequence of columns,   *)
(* each a name and one value per row.  Prices are integers in thousandths, *)
(* amounts and percentages integers in hundredths.                         *)
(***************************************************************************)
\* NaN is the fraction 0/0
NaN == [num |-> 0, den |-> 0]
IsNaN(x) == x.den = 0
\* prices carry three decimals
PriceScale == 10 ^ 3

\* round(2) of the fraction num/den (den > 0), halves to even, as an integer
\* number of hundredths; the whole part is split off first to stay in 32 bits
Round2(num, den) ==
    LET whole == num \div den
        f == (num % den) * 100
        q == f \div den
        r == f % den
    IN  whole * 100 +
            (IF 2 * r < den THEN q
             ELSE IF 2 * r > den THEN q + 1
             ELSE IF q % 2 = 0 THEN q ELSE q + 1)

\* the columns of base.STANDARD_COLUMNS
STANDARD_COLUMNS ==
    <<"date", "open", "high", "low", "close", "volume", "amount", "pct_chg">>

\* column_mapping
column_mapping(name) ==
    CASE name = "Date" -> "date"
      [] name = "Open" -> "open"
      [] name = "High" -> "high"
      [] name = "Low" -> "low"
      [] name = "Close" -> "close"
      [] name = "Volume" -> "volume"
      [] OTHER -> name

\* df.reset_index(): the index becomes the first column, named after the
\* index, or 'index' when the index has no name
ResetIndex(df) ==
    <<[name |-> IF df.index_name = "None" THEN "index" ELSE df.index_name,
       values |-> df.index_values]>> \o df.columns

\* df.rename(columns=column_mapping)
Rename(cols) ==
    [i \in 1..Len(cols) |-> [name |-> column_mapping(cols[i].name), values |-> cols[i].values]]

\* name in df.columns
HasCol(cols, name) == \E i \in 1..Len(cols) : cols[i].name = name

\* df[name]
Col(cols, name) == cols[CHOOSE i \in 1..Len(cols) : cols[i].name = name].values

\* df[name] = values: replaces the column of that name, else appends one
SetCol(cols, name, values) ==
    IF HasCol(cols, name)
    THEN [i \in 1..Len(cols) |->
             IF cols[i].name = name THEN [name |-> name, values |-> values] ELSE cols[i]]
    ELSE Append(cols, [name |-> name, values |-> values])

\* Series.pct_change(): NaN in the first row, then the relative change
\* against the row before, as a fraction
PctChangeFromFirst(v) ==
    [i \in 1..Len(v) |->
        IF i = 1 THEN NaN ELSE [num |-> v[i] - v[1], den |-> v[1]]]
PctChange(v) ==
    [i \in 1..Len(v) |->
        IF i = 1 THEN NaN ELSE [num |-> v[i] - v[i - 1], den |-> v[i - 1]]]

\* df['close'].pct_change() * 100, then .fillna(0).round(2)
PctChgColumn(close) ==
    LET pct == PctChange(close)
        times100 == [i \in 1..Len(pct) |->
                        IF IsNaN(pct[i]) THEN NaN
                        ELSE [num |-> pct[i].num * 100, den |-> pct[i].den]]
        filled == [i \in 1..Len(pct) |->
                      IF IsNaN(times100[i]) THEN [num |-> 0, den |-> 1] ELSE times100[i]]
    IN  [i \in 1..Len(pct) |-> Round2(filled[i].num, filled[i].den)]

\* (df['volume'] * df['close']).round(2)
AmountColumn(volume, close) ==
    [i \in 1..Len(close) |-> Round2(volume[i] * close[i], PriceScale)]

\* the if/else that sets df['amount']
AmountOnlyWhenDerivable(cols, nrows) ==
    IF HasCol(cols, "volume") /\ HasCol(cols, "close")
    THEN SetCol(cols, "amount", AmountColumn(Col(cols, "volume"), Col(cols, "close")))
    ELSE cols
WithAmount(cols, nrows) ==
    IF HasCol(cols, "volume") /\ HasCol(cols, "close")
    THEN SetCol(cols, "amount", AmountColumn(Col(cols, "volume"), Col(cols, "close")))
    ELSE SetCol(cols, "amount", [i \in 1..nrows |-> 0])

\* the if that sets df['pct_chg']
WithPctChg(cols) ==
    IF HasCol(cols, "close")
    THEN SetCol(cols, "pct_chg", PctChgColumn(Col(cols, "close")))
    ELSE cols

\* keep_cols = ['code'] + STANDARD_COLUMNS
keep_cols == <<"code">> \o STANDARD_COLUMNS

\* existing_cols = [col for col in keep_cols if col in df.columns]
RECURSIVE FilterExisting(_, _)
FilterExisting(keep, cols) ==
    IF keep = <<>> THEN <<>>
    ELSE IF HasCol(cols, Head(keep))
         THEN <<Head(keep)>> \o FilterExisting(Tail(keep), cols)
         ELSE FilterExisting(Tail(keep), cols)

\* df = df[existing_cols]
KeepEverything(cols) == cols
Project(cols) ==
    LET existing_cols == FilterExisting(keep_cols, cols)
    IN  [i \in 1..Len(existing_cols) |->
            [name |-> existing_cols[i], values |-> Col(cols, existing_cols[i])]]

\* _normalize_data: the columns of the returned frame
NormalizeData(df, stock_code) ==
    LET nrows == Len(df.index_values)
        renamed == Rename(ResetIndex(df))
        withPct == WithPctChg(renamed)
        withAmount == WithAmount(withPct, nrows)
        withCode == SetCol(withAmount, "code", [i \in 1..nrows |-> Upper(stock_code)])
    IN  Project(withCode)

(***************************************************************************)
(* Specifications of _normalize_data: a call with a provider frame is      *)
(* about to run.  A frame has 1 to MaxRows rows, a date index that is      *)
(* named 'Date' or has no name, and any subset of the provider's columns.  *)
(***************************************************************************)
MaxRows == 3
\* the provider's columns, in the provider's order
ProviderColumns == <<"Open", "High", "Low", "Close", "Adj Close", "Volume">>
IndexNames == {"Date", "None"}
StockCodes == {<<"a", "a", "p", "l">>, <<" ", "^", "G", "a">>}

\* the values of a column that _normalize_data only passes through
PassThrough(k, n) == [i \in 1..n |-> 1000 * k + i]

MakeFrame(n, idx, present, closes, volumes) ==
    LET ks == {k \in 1..Len(ProviderColumns) : ProviderColumns[k] \in present}
        kth(j) == CHOOSE k \in ks : Cardinality({m \in ks : m < k}) = j - 1
    IN  [index_name |-> idx,
         index_values |-> [i \in 1..n |-> i],
         columns |-> [j \in 1..Cardinality(ks) |->
             LET k == kth(j)
                 name == ProviderColumns[k]
             IN  [name |-> name,
                  values |-> IF name = "Close" THEN closes
                             ELSE IF name = "Volume" THEN volumes
                             ELSE PassThrough(k, n)]]]

ProviderColumnSet == {ProviderColumns[k] : k \in 1..Len(ProviderColumns)}

\* a call _normalize_data(df, stock_code) is about to run, df having one of
\* the column sets and its closes and volumes drawn from the given values
NormalizeCallPending(colsets, closeVals, volVals) ==
    \E n \in 1..MaxRows, idx \in IndexNames, present \in colsets, s \in StockCodes :
        \E closes \in IF "Close" \in present THEN [1..n -> closeVals] ELSE {<<>>} :
            \E volumes \in IF "Volume" \in present THEN [1..n -> volVals] ELSE {<<>>} :
                call = [op |-> "normalize",
                        df |-> MakeFrame(n, idx, present, closes, volumes),
                        stock_code |-> s]

\* every subset of the provider's columns, few values
InitNorm ==
    /\ NormalizeCallPending(SUBSET ProviderColumnSet, {100000, 102000}, {1000})
    /\ ret = NoRet
    /\ warnings = 0
    /\ history = <<>>
    /\ statistics = NoStatistics

\* few column sets, more values: 100, 102, 101, 50.5, 10.125; volumes 1000, 3
InitNum ==
    /\ NormalizeCallPending({ProviderColumnSet, {"Close", "Volume"}, {"Close"}},
                            {100000, 102000, 101000, 50500, 10125}, {1000, 3})
    /\ ret = NoRet
    /\ warnings = 0
    /\ history = <<>>
    /\ statistics = NoStatistics

DoNormalizeData ==
    /\ call.op = "normalize"
    /\ ret = NoRet
    /\ ret' = [kind |-> "return", value |-> NormalizeData(call.df, call.stock_code)]
    /\ UNCHANGED <<call, warnings, history, statistics>>

NextNorm == DoNormalizeData

SpecNorm == InitNorm /\ [][NextNorm]_vars
SpecNum == InitNum /\ [][NextNorm]_vars

(***************************************************************************)
(* _fetch_raw_data and its retry decorator                                 *)
(*                                                                         *)
(* The provider's answers to the successive yf.download calls of one fetch *)
(* are a script; past its end the provider keeps giving its last answer.   *)
(***************************************************************************)
Raises(type) == [kind |-> "raise", type |-> type, rows |-> 0]
DataFrame(rows) == [kind |-> "frame", type |-> "DataFrame", rows |-> rows]

TransientErrors == {"ConnectionError", "TimeoutError"}
ProviderErrors == TransientErrors \cup {"ValueError"}
ProviderResponses ==
    {Raises(e) : e \in ProviderErrors} \cup {DataFrame(0), DataFrame(2)}

ResponseAt(script, n) == IF n <= Len(script) THEN script[n] ELSE script[Len(script)]

Returned(value) == [kind |-> "return", value |-> value, type |-> "none", cause |-> "none"]
Raised(type, cause) == [kind |-> "raise", value |-> "none", type |-> type, cause |-> cause]

\* the function body, given the answer of this attempt's yf.download call:
\* what it returns or raises, whether it reached the provider, its warnings
BodyWithoutEmptyCheck(stock_code, response) ==
    LET v == ValidateStockCode(stock_code)
    IN  IF v.raised
        THEN [out |-> Raised("AttributeError", "none"), called |-> 0, warnings |-> 0]
        ELSE [out |-> IF response.kind = "raise"
                      THEN Raised("DataFetchError", response.type)
                      ELSE Returned(response),
              called |-> 1,
              warnings |-> v.warnings]
FetchRawDataBody(stock_code, response) ==
    LET v == ValidateStockCode(stock_code)
    IN  IF v.raised
        THEN [out |-> Raised("AttributeError", "none"), called |-> 0, warnings |-> 0]
        ELSE [out |-> IF response.kind = "raise"
                      THEN Raised("DataFetchError", response.type)
                      ELSE IF response.rows = 0
                           THEN Raised("DataFetchError", "none")
                           ELSE Returned(response),
              called |-> 1,
              warnings |-> v.warnings]

\* stop=stop_after_attempt(3)
StopAfterAttempt == 3
\* wait=wait_exponential(multiplier=1, min=2, max=30)
WaitMultiplier == 1
WaitMin == 2
WaitMax == 30
Min2(a, b) == IF a < b THEN a ELSE b
Max2(a, b) == IF a > b THEN a ELSE b
WaitExponential(attempt_number) ==
    Max2(WaitMin, Min2(WaitMultiplier * 2 ^ (attempt_number - 1), WaitMax))

\* retry=retry_if_exception_type((ConnectionError, TimeoutError)), applied
\* to what the body gave
RetryAnyException(out) == out.kind = "raise"
ShouldRetry(out) == out.kind = "raise" /\ out.type \in TransientErrors

\* the attempt number a call starts with: the wrapper makes a new retry
\* state for each call
ContinueAttempt(stats) == stats.attempt_number + 1
FirstAttempt(stats) == 1

\* the retry wrapper: run the body; return or re-raise what it gave unless it
\* is to be retried; stop with RetryError once the attempts are used up;
\* otherwise log before sleeping, sleep, and run the body again
RECURSIVE Retrying(_, _, _, _)
Retrying(stock_code, script, attempt_number, acc) ==
    LET body == FetchRawDataBody(stock_code, ResponseAt(script, acc.provider_calls + 1))
        now == [acc EXCEPT !.provider_calls = @ + body.called,
                            !.warnings = @ + body.warnings,
                            !.attempt_number = attempt_number]
    IN  IF ~ShouldRetry(body.out)
        THEN [now EXCEPT !.out = body.out]
        ELSE IF attempt_number >= StopAfterAttempt
        THEN [now EXCEPT !.out = Raised("RetryError", body.out.type)]
        ELSE Retrying(stock_code, script, attempt_number + 1,
                      [now EXCEPT !.warnings = @ + 1,
                                  !.sleeps = Append(@, WaitExponential(attempt_number))])

\* a call of the decorated _fetch_raw_data
FetchRawData(stock_code, script, stats) ==
    Retrying(stock_code, script, FirstAttempt(stats),
             [out |-> NoRet, provider_calls |-> 0, warnings |-> 0,
              sleeps |-> <<>>, attempt_number |-> 0])

(***************************************************************************)
(* get_stock_info                                                          *)
(***************************************************************************)
\* the keys get_stock_info reads from ticker.info
InfoKeys ==
    {"symbol", "longName", "shortName", "marketCap", "trailingPE", "forwardPE",
     "priceToBook", "dividendYield", "fiftyTwoWeekHigh", "fiftyTwoWeekLow",
     "sector", "industry"}

\* what the provider does during one get_stock_info call: yf.Ticker(code)
\* raises or not, ticker.info raises, is None, or is a mapping with some keys
InfoResponse(ticker, info, keys) == [ticker |-> ticker, info |-> info, keys |-> keys]

Provided(key) == [provided |-> key]
Default0 == [default |-> "0"]
DefaultNA == [default |-> "N/A"]
Argument(stock_code) == [argument |-> stock_code]
None == [none |-> TRUE]

\* info.get(key, default)
Get(response, key, default) == IF key \in response.keys THEN Provided(key) ELSE default

\* the dict literal of the return statement
StockInfo(stock_code, response) ==
    [symbol |-> Get(response, "symbol", Argument(stock_code)),
     name |-> Get(response, "longName", Get(response, "shortName", DefaultNA)),
     market_cap |-> Get(response, "marketCap", Default0),
     pe_ratio |-> Get(response, "trailingPE", Default0),
     forward_pe |-> Get(response, "forwardPE", Default0),
     pb_ratio |-> Get(response, "priceToBook", Default0),
     dividend_yield |-> Get(response, "dividendYield", Default0),
     fifty_two_week_high |-> Get(response, "fiftyTwoWeekHigh", Default0),
     fifty_two_week_low |-> Get(response, "fiftyTwoWeekLow", Default0),
     sector |-> Get(response, "sector", DefaultNA),
     industry |-> Get(response, "industry", DefaultNA)]

\* the try block: what it returns or raises, and the warnings of validation
TryStockInfo(stock_code, response) ==
    LET v == ValidateStockCode(stock_code)
    IN  IF v.raised
        THEN [out |-> Raised("AttributeError", "none"), warnings |-> 0]
        ELSE IF response.ticker = "raise"
        THEN [out |-> Raised("ValueError", "none"), warnings |-> v.warnings]
        ELSE IF response.info = "raise"
        THEN [out |-> Raised("KeyError", "none"), warnings |-> v.warnings]
        ELSE IF response.info = "none"
        THEN [out |-> Raised("AttributeError", "none"), warnings |-> v.warnings]
        ELSE [out |-> Returned(StockInfo(stock_code, response)), warnings |-> v.warnings]

\* get_stock_info: except Exception logs a warning and returns None
GetStockInfoUnguarded(stock_code, response) == TryStockInfo(stock_code, response)
GetStockInfo(stock_code, response) ==
    LET try == TryStockInfo(stock_code, response)
    IN  IF try.out.kind = "raise"
        THEN [out |-> Returned(None), warnings |-> try.warnings + 1]
        ELSE try

(***************************************************************************)
(* The fetcher: calls of _fetch_raw_data and get_stock_info in any order   *)
(***************************************************************************)
Scripts == [1..StopAfterAttempt -> ProviderResponses]
FetchCodes == {<<"a", "a", "p", "l">>, <<"a", "1">>, NoneObject}
AllKeysButLongName == InfoKeys \ {"longName"}
FewInfoResponses ==
    { InfoResponse("raise", "mapping", {}),
      InfoResponse("ok", "raise", {}),
      InfoResponse("ok", "none", {}),
      InfoResponse("ok", "mapping", {}),
      InfoResponse("ok", "mapping", AllKeysButLongName) }

Init ==
    /\ call = NoCall
    /\ ret = NoRet
    /\ warnings = 0
    /\ history = <<>>
    /\ statistics = NoStatistics

DoFetchRawData(stock_code, script) ==
    LET r == FetchRawData(stock_code, script, statistics)
    IN  /\ call' = [op |-> "fetch", stock_code |-> stock_code, script |-> script,
                    provider_calls |-> r.provider_calls, sleeps |-> r.sleeps,
                    attempts |-> r.attempt_number]
        /\ ret' = r.out
        /\ warnings' = r.warnings
        /\ statistics' = [attempt_number |-> r.attempt_number]

DoGetStockInfo(stock_code, response) ==
    LET r == GetStockInfo(stock_code, response)
    IN  /\ call' = [op |-> "info", stock_code |-> stock_code, response |-> response]
        /\ ret' = r.out
        /\ warnings' = r.warnings
        /\ UNCHANGED statistics

Fetch ==
    /\ \E stock_code \in FetchCodes, script \in Scripts : DoFetchRawData(stock_code, script)
    /\ UNCHANGED history

Info ==
    /\ \E stock_code \in FetchCodes, response \in FewInfoResponses :
           DoGetStockInfo(stock_code, response)
    /\ UNCHANGED history

Next == Fetch \/ Info

Spec == Init /\ [][Next]_vars

(***************************************************************************)
(* Specification of get_stock_info alone: a call is about to run, for any  *)
(* provider behaviour and any subset of the keys in ticker.info            *)
(***************************************************************************)
InfoCodes == {<<"a", "a", "p", "l">>, <<"a", "1">>, NoneObject}
AllInfoResponses ==
    { InfoResponse("raise", "mapping", {}),
      InfoResponse("ok", "raise", {}),
      InfoResponse("ok", "none", {}) }
        \cup {InfoResponse("ok", "mapping", keys) : keys \in SUBSET InfoKeys}

InitInfo ==
    /\ call \in {[op |-> "info", stock_code |-> s, response |-> r] :
                    s \in InfoCodes, r \in AllInfoResponses}
    /\ ret = NoRet
    /\ warnings = 0
    /\ history = <<>>
    /\ statistics = NoStatistics

InfoPending ==
    /\ call.op = "info"
    /\ ret = NoRet
    /\ DoGetStockInfo(call.stock_code, call.response)
    /\ UNCHANGED history

NextInfo == InfoPending

SpecInfo == InitInfo /\ [][NextInfo]_vars

(***************************************************************************)
(* Specification of call sequences: up to MaxCalls calls, each remembered  *)
(* with its arguments, the provider's behaviour and its outcome            *)
(***************************************************************************)
MaxCalls == 3
SeqCodes == {<<"a", "a", "p", "l">>, <<"a", "1">>}
SeqScripts ==
    { <<DataFrame(2), DataFrame(2), DataFrame(2)>>,
      <<Raises("ConnectionError"), Raises("ConnectionError"), DataFrame(2)>>,
      <<Raises("TimeoutError"), Raises("TimeoutError"), Raises("TimeoutError")>>,
      <<Raises("ValueError"), DataFrame(2), DataFrame(2)>>,
      <<DataFrame(0), DataFrame(2), DataFrame(2)>> }
SeqInfoResponses ==
    { InfoResponse("raise", "mapping", {}),
      InfoResponse("ok", "raise", {}),
      InfoResponse("ok", "mapping", AllKeysButLongName) }

Remember == history' = Append(history, <<call', ret', warnings'>>)

FetchSeq ==
    /\ Len(history) < MaxCalls
    /\ \E stock_code \in SeqCodes, script \in SeqScripts : DoFetchRawData(stock_code, script)
    /\ Remember

InfoSeq ==
    /\ Len(history) < MaxCalls
    /\ \E stock_code \in SeqCodes, response \in SeqInfoResponses :
           DoGetStockInfo(stock_code, response)
    /\ Remember

NextSeq == FetchSeq \/ InfoSeq

SpecSeq == Init /\ [][NextSeq]_vars

(***************************************************************************)
(* Claims about _validate_stock_code, checked under SpecSym                *)
(***************************************************************************)
Validated == call.op = "validate" /\ ret # NoRet

AllUpperLetters(s, from) == \A i \in from..Len(s) : s[i] \in UpperLetters
\* 1 to 5 uppercase letters
EquityPattern(s) == Len(s) \in 1..5 /\ AllUpperLetters(s, 1)
\* a caret followed by letters
IndexPattern(s) == Len(s) >= 2 /\ s[1] = "^" /\ AllUpperLetters(s, 2)
NoOuterWhitespace(s) == s = <<>> \/ (s[1] # " " /\ s[Len(s)] # " ")

\* C6 as stated: validation returns the trimmed, uppercased symbol without
\* raising, and logs no warning exactly when that symbol is a caret followed
\* by letters or consists of 1 to 5 uppercase letters.
C6_AsStated ==
    Validated =>
        /\ ret.kind = "return"
        /\ ret.value = Upper(Strip(call.stock_code))
        /\ (warnings = 0) <=> (IndexPattern(ret.value) \/ EquityPattern(ret.value))

\* C6 amended: validation returns the trimmed, uppercased symbol without
\* raising, and logs no warning exactly when that symbol starts with a caret
\* (whatever follows it, even nothing) or consists of 1 to 5 letters; every
\* other input logs exactly one warning.
C6_ValidateNeverBlocks ==
    Validated =>
        /\ ret.kind = "return"
        /\ ret.value = Upper(Strip(call.stock_code))
        /\ NoOuterWhitespace(ret.value)
        /\ warnings \in {0, 1}
        /\ (warnings = 0) <=>
               \/ (Len(ret.value) >= 1 /\ ret.value[1] = "^")
               \/ EquityPattern(ret.value)

\* a caret followed by a digit is accepted without a warning
C6_Witness ==
    /\ Validated
    /\ call.stock_code = <<" ", "^", "1">>
    /\ ret.value = <<"^", "1">>
    /\ warnings = 0

\* C7: for a symbol matching the equity or the index pattern, normalizing the
\* normalized symbol changes nothing, and "  aapl  " normalizes to "AAPL".
C7_NormalizeIdempotent ==
    Validated =>
        /\ (EquityPattern(call.stock_code) \/ IndexPattern(call.stock_code))
               => NormalizeCode(ret.value) = ret.value
        /\ call.stock_code = PaddedAapl => ret.value = <<"A", "A", "P", "L">>

C7_Witness ==
    /\ Validated
    /\ call.stock_code = PaddedAapl
    /\ ret.value = <<"A", "A", "P", "L">>
    /\ NormalizeCode(ret.value) = ret.value

(***************************************************************************)
(* Claims about _normalize_data, checked under SpecNorm and SpecNum        *)
(***************************************************************************)
Normalized == call.op = "normalize" /\ ret # NoRet

InputHas(name) == \E i \in 1..Len(call.df.columns) : call.df.columns[i].name = name
InputCol(name) ==
    call.df.columns[CHOOSE i \in 1..Len(call.df.columns) : call.df.columns[i].name = name].values
OutNames == [i \in 1..Len(ret.value) |-> ret.value[i].name]
OutHas(name) == \E i \in 1..Len(ret.value) : ret.value[i].name = name
OutCol(name) == ret.value[CHOOSE i \in 1..Len(ret.value) : ret.value[i].name = name].values
NRows == Len(call.df.index_values)

DeclaredOrder ==
    <<"code", "date", "open", "high", "low", "close", "volume", "amount", "pct_chg">>

\* which declared columns the response gives rise to
Expected(name) ==
    CASE name = "code" -> TRUE
      [] name = "date" -> call.df.index_name = "Date"
      [] name = "open" -> InputHas("Open")
      [] name = "high" -> InputHas("High")
      [] name = "low" -> InputHas("Low")
      [] name = "close" -> InputHas("Close")
      [] name = "volume" -> InputHas("Volume")
      [] name = "amount" -> TRUE
      [] name = "pct_chg" -> InputHas("Close")

\* C8: whatever subset of its columns the provider's frame carries,
\* _normalize_data returns, and the returned columns are exactly the declared
\* ones that exist, in the declared order: code always (the symbol
\* uppercased), amount always (0 without volume or close), pct_chg exactly
\* with close, a missing provider column omitted, anything else dropped.
C8_ColumnsProjected ==
    Normalized =>
        /\ ret.kind = "return"
        /\ OutNames = SelectSeq(DeclaredOrder, Expected)
        /\ OutCol("code") = [i \in 1..NRows |-> Upper(call.stock_code)]
        /\ ~(InputHas("Volume") /\ InputHas("Close"))
               => OutCol("amount") = [i \in 1..NRows |-> 0]

\* a frame with an unnamed index, without Close and with an extra column
C8_Witness ==
    /\ Normalized
    /\ call.df.index_name = "None"
    /\ InputHas("Adj Close") /\ InputHas("Volume") /\ ~InputHas("Close")
    /\ OutNames = <<"code", "volume", "amount">>
    /\ OutCol("amount") = [i \in 1..NRows |-> 0]

\* C9: with a close column, the output has one row per input row in the same
\* order; pct_chg is 0.00 in the first row and the change of close against
\* the row before, in percent rounded to 2 decimals, in the others (closes
\* 100, 102, 101 give 0.0, 2.0, -0.98); amount is volume * close rounded to 2
\* decimals (volume 1000 and close 50.5 give 50500.0).
C9_PctChgAndAmount ==
    (Normalized /\ InputHas("Close")) =>
        LET close == InputCol("Close")
            pct == OutCol("pct_chg")
        IN  /\ \A j \in 1..Len(ret.value) : Len(ret.value[j].values) = NRows
            /\ OutCol("close") = close
            /\ OutHas("date") => OutCol("date") = call.df.index_values
            /\ pct[1] = 0
            /\ \A i \in 2..NRows :
                   pct[i] = Round2((close[i] - close[i - 1]) * 100, close[i - 1])
            /\ close = <<100000, 102000, 101000>> => pct = <<0, 200, -98>>
            /\ InputHas("Volume") =>
                   \A i \in 1..NRows :
                       /\ OutCol("amount")[i] = Round2(InputCol("Volume")[i] * close[i], PriceScale)
                       /\ (InputCol("Volume")[i] = 1000 /\ close[i] = 50500)
                              => OutCol("amount")[i] = 5050000

C9_Witness ==
    /\ Normalized
    /\ InputHas("Close") /\ InputHas("Volume")
    /\ InputCol("Close") = <<100000, 102000, 101000>>
    /\ OutCol("pct_chg") = <<0, 200, -98>>
    /\ InputCol("Volume") = <<1000, 3, 1000>>
    /\ OutCol("amount") = <<10000000, 30600, 10100000>>

(***************************************************************************)
(* Claims about _fetch_raw_data, checked under Spec                        *)
(***************************************************************************)
\* a bar fetch that got as far as the provider
Fetched == call.op = "fetch" /\ call.stock_code # NoneObject

Transient(response) ==
    response.kind = "raise" /\ response.type \in {"ConnectionError", "TimeoutError"}

\* C1 as stated: when yf.download raises ConnectionError or TimeoutError on
\* the first two attempts and gives a non-empty frame on the third, the
\* fetch returns that frame, after three provider calls with a backoff wait
\* of 2 to 30 between consecutive attempts.
C1_AsStated ==
    (/\ Fetched
     /\ Transient(call.script[1])
     /\ Transient(call.script[2])
     /\ call.script[3] = DataFrame(2))
        => /\ ret.kind = "return"
           /\ ret.value = call.script[3]
           /\ call.provider_calls = 3
           /\ Len(call.sleeps) = 2
           /\ \A i \in 1..Len(call.sleeps) : call.sleeps[i] \in 2..30

\* C2 as stated: no fetch calls the provider more than 3 times, and when
\* yf.download raises ConnectionError or TimeoutError on every attempt the
\* provider is called 3 times and the caller gets DataFetchError.
C2_AsStated ==
    /\ call.op = "fetch" => call.provider_calls <= 3
    /\ (Fetched /\ \A i \in 1..3 : Transient(call.script[i]))
           => /\ call.provider_calls = 3
              /\ ret.kind = "raise"
              /\ ret.type = "DataFetchError"

\* C3: when yf.download raises an exception that is neither ConnectionError
\* nor TimeoutError, the fetch calls the provider once, does not wait or
\* retry, and raises DataFetchError with the original exception as cause.
C3_NonTransientNotRetried ==
    (/\ Fetched
     /\ call.script[1].kind = "raise"
     /\ ~Transient(call.script[1]))
        => /\ call.provider_calls = 1
           /\ call.attempts = 1
           /\ call.sleeps = <<>>
           /\ ret.kind = "raise"
           /\ ret.type = "DataFetchError"
           /\ ret.cause = call.script[1].type

C3_Witness ==
    /\ Fetched
    /\ call.script = <<Raises("ValueError"), DataFrame(2), DataFrame(2)>>
    /\ call.provider_calls = 1
    /\ ret.kind = "raise"
    /\ ret.type = "DataFetchError"
    /\ ret.cause = "ValueError"

\* C4: when yf.download gives a frame without rows, the fetch raises
\* DataFetchError after one provider call, without waiting or retrying; and
\* no fetch returns a frame without rows.
C4_EmptyIsAnError ==
    /\ (Fetched /\ call.script[1] = DataFrame(0))
           => /\ call.provider_calls = 1
              /\ call.sleeps = <<>>
              /\ ret.kind = "raise"
              /\ ret.type = "DataFetchError"
    /\ (call.op = "fetch" /\ ret.kind = "return") => ret.value.rows > 0

C4_Witness ==
    /\ Fetched
    /\ call.script = <<DataFrame(0), DataFrame(2), DataFrame(2)>>
    /\ call.provider_calls = 1
    /\ ret.kind = "raise"
    /\ ret.type = "DataFetchError"

(***************************************************************************)
(* Claim about get_stock_info, checked under SpecInfo                      *)
(***************************************************************************)
InfoDone == call.op = "info" /\ ret # NoRet

\* validation, the ticker lookup or the read of ticker.info fails
InfoStepFails ==
    \/ call.stock_code = NoneObject
    \/ call.response.ticker = "raise"
    \/ call.response.info \in {"raise", "none"}

FromProviderOr(key, default) ==
    IF key \in call.response.keys THEN [provided |-> key] ELSE default

\* C5: get_stock_info never raises; when a step fails it logs a warning and
\* returns None; otherwise it returns a record of exactly eleven fields,
\* each the provider's value or, when the provider omits it, its own default.
C5_InfoNeverRaises ==
    InfoDone =>
        /\ ret.kind = "return"
        /\ InfoStepFails => (ret.value = [none |-> TRUE] /\ warnings >= 1)
        /\ ~InfoStepFails =>
            /\ DOMAIN ret.value =
                   {"symbol", "name", "market_cap", "pe_ratio", "forward_pe", "pb_ratio",
                    "dividend_yield", "fifty_two_week_high", "fifty_two_week_low",
                    "sector", "industry"}
            /\ ret.value.symbol = FromProviderOr("symbol", [argument |-> call.stock_code])
            /\ ret.value.name =
                   FromProviderOr("longName", FromProviderOr("shortName", [default |-> "N/A"]))
            /\ ret.value.market_cap = FromProviderOr("marketCap", [default |-> "0"])
            /\ ret.value.pe_ratio = FromProviderOr("trailingPE", [default |-> "0"])
            /\ ret.value.forward_pe = FromProviderOr("forwardPE", [default |-> "0"])
            /\ ret.value.pb_ratio = FromProviderOr("priceToBook", [default |-> "0"])
            /\ ret.value.dividend_yield = FromProviderOr("dividendYield", [default |-> "0"])
            /\ ret.value.fifty_two_week_high =
                   FromProviderOr("fiftyTwoWeekHigh", [default |-> "0"])
            /\ ret.value.fifty_two_week_low =
                   FromProviderOr("fiftyTwoWeekLow", [default |-> "0"])
            /\ ret.value.sector = FromProviderOr("sector", [default |-> "N/A"])
            /\ ret.value.industry = FromProviderOr("industry", [default |-> "N/A"])

\* the provider cannot resolve the symbol: None comes back, with a warning
C5_Witness ==
    /\ InfoDone
    /\ call.stock_code = <<"a", "a", "p", "l">>
    /\ call.response.ticker = "ok"
    /\ call.response.info = "raise"
    /\ ret.kind = "return"
    /\ ret.value = [none |-> TRUE]
    /\ warnings = 1

(***************************************************************************)
(* Claim about call sequences, checked under SpecSeq                       *)
(***************************************************************************)
SameInput(c, d) ==
    /\ c.op = d.op
    /\ c.stock_code = d.stock_code
    /\ c.op = "fetch" => c.script = d.script
    /\ c.op = "info" => c.response = d.response

\* C10: whatever calls came before, two calls with the same arguments and
\* the same provider behaviour have the same outcome (value or exception,
\* provider calls, waits, warnings), and every bar fetch starts at attempt 1
\* with its own budget of 3 attempts.
C10_NoStateBetweenCalls ==
    /\ \A i \in 1..Len(history) : \A j \in 1..Len(history) :
           SameInput(history[i][1], history[j][1]) => history[i] = history[j]
    /\ \A i \in 1..Len(history) :
           history[i][1].op = "fetch" =>
               /\ history[i][1].attempts = history[i][1].provider_calls
               /\ history[i][1].attempts <= 3

\* a failed bar fetch, then a failed info fetch, then the first bar fetch
\* again, with the outcome it had the first time
C10_Witness ==
    /\ Len(history) = 3
    /\ history[1][1].op = "fetch"
    /\ history[1][1].script[1] = Raises("ConnectionError")
    /\ history[1][2].kind = "raise"
    /\ history[2][1].op = "info"
    /\ history[2][2].value = [none |-> TRUE]
    /\ history[3] = history[1]
    /\ history[3][1].attempts = 1

====
